---- MODULE Spec2Model ----
(***************************************************************************)
(* DealBase rent-roll intake: the parser's duplicate resolution, the       *)
(* persistence of normalized unit records and unit-mix groups, the upload  *)
(* document life cycle and the unit-mix provenance operations, for one     *)
(* deal.  Every committed database transaction is one step of the model.   *)
(***************************************************************************)
EXTENDS Integers, Sequences, FiniteSets, TLC

VARIABLES
    records,    \* committed rent_roll_normalized rows of the deal
    groups,     \* committed unit_mix_summary rows of the deal
    docs,       \* committed deal_documents rows (rent_roll), by id = creation order
    nextRecId,  \* next primary key of rent_roll_normalized
    nextGrpId,  \* next primary key of unit_mix_summary
    sess,       \* per request/session: position in its handler and its locals
    hist,       \* history: the last finished request, what it saw and what it did
    lastData,   \* history: the record contents written by the last record replacement
    served,     \* number of requests received so far
    arg,        \* input table of _resolve_duplicates
    res         \* its result, once it has run

vars == <<records, groups, docs, nextRecId, nextGrpId, sess, hist, lastData, served, arg, res>>
dbvars == <<records, groups, docs, nextRecId, nextGrpId, sess, hist, lastData, served>>

----------------------------------------------------------------------------
(* Bounds of the model *)

MaxRows == 3        \* rows of a resolver input table
MaxRequests == 3    \* requests the deal receives, one at a time
MaxUploads == 2     \* uploads the deal receives when they may overlap

(* Program constants *)

max_retries == 3                \* parse attempts of upload_rentroll
max_persistence_retries == 2    \* persistence attempts of upload_rentroll
NaT == -1                       \* a missing / unparsable date or number (coerced)

----------------------------------------------------------------------------
(* Value domains *)

UnitNumbers == <<"101", "102">>     \* in groupby (sorted key) order
UnitTypes == {"1BR", "2BR"}
Statuses == {"occupied", "vacant"}
Rents == {0, 1500}
Leases == {<<NaT, NaT>>, <<1, 3>>, <<2, 5>>}   \* <<lease_start, lease_expiration>>
Todays == {2, 4}

\* str.strip() and str.lower() on the cell texts that occur
Strip(s) == IF s = " " THEN "" ELSE s

Lower(s) ==
    CASE s = "Occupied" -> "occupied"
      [] s = "Applicant" -> "applicant"
      [] s = "Vacant" -> "vacant"
      [] s = "Total" -> "total"
      [] OTHER -> s

AllColumns == {"unit_number", "actual_rent", "lease_status", "lease_start", "lease_expiration"}
ColumnSets == {AllColumns, AllColumns \ {"lease_start", "lease_expiration"}}

Range(s) == {s[i] : i \in 1..Len(s)}

RECURSIVE SeqSum(_)
SeqSum(s) == IF s = <<>> THEN 0 ELSE Head(s) + SeqSum(Tail(s))

RECURSIVE Flatten(_)
Flatten(ss) == IF ss = <<>> THEN <<>> ELSE Head(ss) \o Flatten(Tail(ss))

SetMax(S) == CHOOSE x \in S : \A y \in S : y <= x

----------------------------------------------------------------------------
(* RentRollParser._resolve_duplicates *)

\* rows of a normalized dataframe; WithIdx adds the dataframe index label
ResolverRows == [unit_number : Range(UnitNumbers), unit_type : {"1BR"},
                 actual_rent : Rents, market_rent : {1500},
                 lease_status : Statuses, lease : Leases]
WithIdx(df) == [i \in 1..Len(df) |-> [idx |-> i] @@ df[i]]

HasRentMut(r) == r.actual_rent # NaT

HasRent(r) == r.actual_rent > 0 /\ r.actual_rent # NaT
IsOccupied(r) == Lower(r.lease_status) \in {"occupied"}
LeaseStart(r) == r.lease[1]
LeaseEnd(r) == r.lease[2]
CurrentLease(r, today) ==
    /\ LeaseStart(r) # NaT /\ LeaseEnd(r) # NaT
    /\ LeaseStart(r) <= today /\ today <= LeaseEnd(r)

\* Series.idxmax over lease_start: NaT skipped, first of the maxima; an all-NaT
\* series has no maximum and the lookup raises
IdxMaxRaises(rows) == \A i \in 1..Len(rows) : LeaseStart(rows[i]) = NaT
IdxMaxLeaseStart(rows) ==
    LET m == SetMax({LeaseStart(rows[i]) : i \in 1..Len(rows)})
        first == CHOOSE i \in 1..Len(rows) :
                    /\ LeaseStart(rows[i]) = m
                    /\ \A j \in 1..(i - 1) : LeaseStart(rows[j]) # m
    IN rows[first]

Kept(row, why) == [ok |-> TRUE, rows |-> <<row>>, reason |-> why]
Raised == [ok |-> FALSE, rows |-> <<>>, reason |-> "raised"]

\* priority 3 and the fall-back
ResolveByLeaseStart(candidates, cols) ==
    IF "lease_start" \in cols
    THEN IF IdxMaxRaises(candidates) THEN Raised
         ELSE Kept(IdxMaxLeaseStart(candidates), "most recent lease start")
    ELSE Kept(candidates[1], "first occurrence")

\* priority 2, then priority 3 (before it a faulty variant: every row with a current
\* lease is kept)
ResolveByCurrentLeaseMut(candidates, today, cols) ==
    IF {"lease_start", "lease_expiration"} \subseteq cols
    THEN LET current == SelectSeq(candidates, LAMBDA r : CurrentLease(r, today))
         IN IF current # <<>>
            THEN IF Len(current) = 1 THEN Kept(current[1], "current lease")
                 ELSE [ok |-> TRUE, rows |-> current, reason |-> "most recent move-in"]
            ELSE ResolveByLeaseStart(candidates, cols)
    ELSE ResolveByLeaseStart(candidates, cols)

ResolveByCurrentLease(candidates, today, cols) ==
    IF {"lease_start", "lease_expiration"} \subseteq cols
    THEN LET current == SelectSeq(candidates, LAMBDA r : CurrentLease(r, today))
         IN IF current # <<>>
            THEN IF Len(current) = 1 THEN Kept(current[1], "current lease")
                 ELSE Kept(IdxMaxLeaseStart(current), "most recent move-in")
            ELSE ResolveByLeaseStart(candidates, cols)
    ELSE ResolveByLeaseStart(candidates, cols)

\* one groupby group, rows in original order
ResolveGroup(group, today, cols) ==
    IF Len(group) = 1 THEN Kept(group[1], "single")
    ELSE IF "actual_rent" \in cols
    THEN LET withRent == SelectSeq(group, HasRent)
             occupied == SelectSeq(withRent, IsOccupied)
         IN IF withRent # <<>>
            THEN IF Len(withRent) = 1 THEN Kept(withRent[1], "has real rent")
                 ELSE IF "lease_status" \in cols /\ Len(occupied) = 1
                      THEN Kept(occupied[1], "occupied with rent")
                      ELSE ResolveByCurrentLease(withRent, today, cols)
            ELSE ResolveByCurrentLease(group, today, cols)
    ELSE ResolveByCurrentLease(group, today, cols)

GroupOf(df, u) == SelectSeq(df, LAMBDA r : r.unit_number = u)
DuplicatesDropped(df) ==
    LET RECURSIVE cnt(_)
        cnt(k) == IF k = 0 THEN 0
                  ELSE cnt(k - 1) +
                       (IF Len(GroupOf(df, UnitNumbers[k])) > 1
                        THEN Len(GroupOf(df, UnitNumbers[k])) - 1 ELSE 0)
    IN cnt(Len(UnitNumbers))

\* the whole resolver: groups in key order, one result per group; a raise in any
\* group aborts the call
ResolveDuplicates(df, today, cols) ==
    IF "unit_number" \notin cols THEN [ok |-> TRUE, rows |-> df, dropped |-> 0]
    ELSE LET keys == SelectSeq(UnitNumbers, LAMBDA u : GroupOf(df, u) # <<>>)
             per == [k \in 1..Len(keys) |-> ResolveGroup(GroupOf(df, keys[k]), today, cols)]
         IN IF \E k \in 1..Len(keys) : ~per[k].ok
            THEN [ok |-> FALSE, rows |-> <<>>, dropped |-> 0]
            ELSE [ok |-> TRUE,
                  rows |-> IF keys = <<>> THEN df
                           ELSE Flatten([k \in 1..Len(keys) |-> per[k].rows]),
                  dropped |-> DuplicatesDropped(df)]

----------------------------------------------------------------------------
(* Uploaded files, by content hash: the rows _normalize_dataframe yields for   *)
(* them (none: every row is filtered out and parse_rentroll raises)            *)

Files == {"A", "B", "C"}

Row(u, t, rent, st, lease) ==
    [unit_number |-> u, unit_type |-> t, actual_rent |-> rent, market_rent |-> rent,
     lease_status |-> st, lease |-> lease]

FileRows(f) ==
    CASE f = "A" -> <<Row("101", "1BR", 1500, "occupied", <<1, 3>>),
                      Row("102", "2BR", 1500, "vacant", <<NaT, NaT>>)>>
      [] f = "B" -> <<Row("101", "2BR", 1500, "occupied", <<2, 5>>),
                      Row("101", "2BR", 1500, "vacant", <<1, 3>>)>>
      [] OTHER -> <<>>

\* the fields of a normalized record that persistence and aggregation read
Payload(r) == [unit_number |-> r.unit_number, unit_type |-> r.unit_type,
               actual_rent |-> r.actual_rent, market_rent |-> r.market_rent,
               lease_status |-> r.lease_status]

\* parse_rentroll, steps 3 to 7: empty after filtering raises, a resolver error
\* raises, otherwise the deduplicated records
ParseRentroll(f, today) ==
    IF FileRows(f) = <<>> THEN [ok |-> FALSE, data |-> <<>>]
    ELSE LET r == ResolveDuplicates(WithIdx(FileRows(f)), today, AllColumns)
         IN IF ~r.ok \/ r.rows = <<>> THEN [ok |-> FALSE, data |-> <<>>]
            ELSE [ok |-> TRUE, data |-> [i \in 1..Len(r.rows) |-> Payload(r.rows[i])]]

----------------------------------------------------------------------------
(* Unit-mix aggregation: the three derivations of unit_mix_summary rows *)

RECURSIVE SortById(_)
SortById(S) ==
    IF S = {} THEN <<>>
    ELSE LET m == CHOOSE r \in S : \A q \in S : r.id <= q.id
         IN <<m>> \o SortById(S \ {m})

\* dict insertion order: unit types by first occurrence
TypesInOrder(rows) ==
    LET RECURSIVE go(_, _)
        go(i, acc) == IF i > Len(rows) THEN acc
                      ELSE go(i + 1, IF rows[i].unit_type \in Range(acc) THEN acc
                                     ELSE Append(acc, rows[i].unit_type))
    IN go(1, <<>>)

OfType(rows, t) == SelectSeq(rows, LAMBDA r : r.unit_type = t)
RentsOf(rows) == [i \in 1..Len(rows) |-> rows[i].actual_rent]
Mean(xs) == SeqSum(xs) \div Len(xs)
NoneValue == NaT

\* RentRollParser._generate_unit_mix_summary: from the call's normalized_records
ParserGroup(id, t, units) ==
    LET paid == SelectSeq(RentsOf(units), LAMBDA x : x # 0 /\ x # NaT)
    IN [id |-> id, unit_type |-> t, total_units |-> Len(units),
        occupied_units |-> Len(SelectSeq(units, LAMBDA r : r.lease_status = "occupied")),
        avg_actual_rent |-> IF paid # <<>> THEN Mean(paid) ELSE 0,
        total_actual_rent |-> IF paid # <<>> THEN SeqSum(paid) ELSE 0,
        pro_forma_rent |-> NoneValue, total_pro_forma_rent |-> 0,
        provenance |-> "NRR", is_linked_to_nrr |-> TRUE]

\* RentRollNormalizer._generate_unit_mix_summary: from the persisted rows
NormalizerGroup(id, t, units) ==
    [id |-> id, unit_type |-> t, total_units |-> Len(units),
     occupied_units |-> Len(SelectSeq(units, IsOccupied)),
     avg_actual_rent |-> Mean(RentsOf(units)),
     total_actual_rent |-> SeqSum(RentsOf(units)),
     pro_forma_rent |-> NoneValue,
     total_pro_forma_rent |-> SeqSum([i \in 1..Len(units) |-> units[i].market_rent]),
     provenance |-> "NRR", is_linked_to_nrr |-> TRUE]

\* derive_unit_mix_from_nrr: from the persisted rows
RouterGroup(id, t, units) ==
    LET paid == SelectSeq(RentsOf(units), LAMBDA x : x > 0)
        avg == IF paid # <<>> THEN Mean(paid) ELSE 0
    IN [id |-> id, unit_type |-> t, total_units |-> Len(units),
        occupied_units |-> Len(SelectSeq(units, IsOccupied)),
        avg_actual_rent |-> avg,
        total_actual_rent |-> avg * Len(units),
        pro_forma_rent |-> NoneValue, total_pro_forma_rent |-> avg * Len(units),
        provenance |-> "NRR", is_linked_to_nrr |-> TRUE]

\* one new row per unit type, primary keys from first on
MakeGroup(by, id, t, units) ==
    CASE by = "parser" -> ParserGroup(id, t, units)
      [] by = "normalizer" -> NormalizerGroup(id, t, units)
      [] OTHER -> RouterGroup(id, t, units)

NewGroups(rows, first, by) ==
    LET ts == TypesInOrder(rows)
    IN {MakeGroup(by, first + k - 1, ts[k], OfType(rows, ts[k])) : k \in 1..Len(ts)}

NumTypes(rows) == Len(TypesInOrder(rows))

----------------------------------------------------------------------------
(* Sessions and history *)

Sessions == {1, 2}
NoDoc == 0

IdleSess == [pc |-> "idle", op |-> "none", doc |-> NoDoc, file |-> "none",
             tries |-> 0, ptries |-> 0, data |-> <<>>,
             snapRec |-> {}, snapGrp |-> {}, dirty |-> NoDoc,
             preRecords |-> {}, preGroups |-> {}, last |-> "none"]

Hist(op, outcome, doc, preR, preG, data) ==
    [op |-> op, outcome |-> outcome, doc |-> doc, preRecords |-> preR,
     preGroups |-> preG, data |-> data, tries |-> 0, ptries |-> 0, target |-> 0]
NoHist == Hist("none", "none", NoDoc, {}, {}, <<>>)

Content(rows) == {Payload(r) : r \in rows}
Ids(rows) == {r.id : r \in rows}

InitDb ==
    /\ records = {}
    /\ groups = {}
    /\ docs = <<>>
    /\ nextRecId = 1
    /\ nextGrpId = 1
    /\ sess = [s \in Sessions |-> IdleSess]
    /\ hist = NoHist
    /\ lastData = {}
    /\ served = 0

NoRes == [done |-> FALSE, today |-> 0, cols |-> {},
          out |-> [ok |-> FALSE, rows |-> <<>>, dropped |-> 0]]

Init == InitDb /\ arg = <<>> /\ res = NoRes

----------------------------------------------------------------------------
(* upload_rentroll and normalize_rentroll *)

Doc(f) == [file_hash |-> f, processing_status |-> "pending", processing_error |-> ""]

\* a status change with its message (before it a faulty variant: the message is not
\* stored)
SetStatusMut(ds, d, st, err) ==
    [ds EXCEPT ![d] = [@ EXCEPT !.processing_status = st]]

SetStatus(ds, d, st, err) ==
    [ds EXCEPT ![d] = [@ EXCEPT !.processing_status = st, !.processing_error = err]]

Start(s, op, d, f, pc) ==
    [IdleSess EXCEPT !.pc = pc, !.op = op, !.doc = d, !.file = f,
                     !.preRecords = records, !.preGroups = groups, !.last = sess[s].last]
Ended(s, outcome) == [IdleSess EXCEPT !.last = outcome]
HistOf(s, outcome, tries, ptries) ==
    [Hist(sess[s].op, outcome, sess[s].doc, sess[s].preRecords, sess[s].preGroups,
          sess[s].data) EXCEPT !.tries = tries, !.ptries = ptries]

\* the row .first() returns for deal_id + file_hash + file_type: no ORDER BY, so any
\* matching row; NoDoc when none matches
FirstMatches(f) ==
    LET m == {d \in 1..Len(docs) : docs[d].file_hash = f}
    IN IF m = {} THEN {NoDoc} ELSE m

\* lines 442-463: the matched document is completed, nothing else happens
UploadDuplicate(s, f) ==
    /\ sess[s].pc = "idle" /\ served < MaxRequests
    /\ served' = served + 1
    /\ \E e \in FirstMatches(f) :
          /\ IF e = NoDoc THEN FALSE ELSE docs[e].processing_status = "completed"
          /\ hist' = Hist("upload", "duplicate", e, records, groups, <<>>)
    /\ sess' = [sess EXCEPT ![s] = Ended(s, "duplicate")]
    /\ UNCHANGED <<records, groups, docs, nextRecId, nextGrpId, lastData, arg, res>>

\* line 467: save_document_with_content commits a pending document
UploadBegin(s, f) ==
    /\ sess[s].pc = "idle" /\ served < MaxRequests
    /\ served' = served + 1
    /\ \E e \in FirstMatches(f) :
          IF e = NoDoc THEN TRUE ELSE docs[e].processing_status # "completed"
    /\ docs' = Append(docs, Doc(f))
    /\ sess' = [sess EXCEPT ![s] = Start(s, "upload", Len(docs) + 1, f, "saved")]
    /\ hist' = NoHist
    /\ UNCHANGED <<records, groups, nextRecId, nextGrpId, lastData, arg, res>>

\* lines 471-473
UploadMarkProcessing(s) ==
    /\ sess[s].pc = "saved"
    /\ docs' = SetStatus(docs, sess[s].doc, "processing", "")
    /\ sess' = [sess EXCEPT ![s].pc = "parse"]
    /\ UNCHANGED <<records, groups, nextRecId, nextGrpId, hist, lastData, served, arg, res>>

\* normalize_rentroll on a completed document returns at once
NormalizeDone(s, d) ==
    /\ sess[s].pc = "idle" /\ served < MaxRequests
    /\ served' = served + 1
    /\ d \in 1..Len(docs) /\ docs[d].processing_status = "completed"
    /\ hist' = Hist("normalize", "already", d, records, groups, <<>>)
    /\ sess' = [sess EXCEPT ![s] = Ended(s, "already")]
    /\ UNCHANGED <<records, groups, docs, nextRecId, nextGrpId, lastData, arg, res>>

NormalizeBegin(s, d) ==
    /\ sess[s].pc = "idle" /\ served < MaxRequests
    /\ served' = served + 1
    /\ d \in 1..Len(docs) /\ docs[d].processing_status # "completed"
   
    /\ sess' = [sess EXCEPT ![s] = Start(s, "normalize", d, docs[d].file_hash, "parse")]
    /\ hist' = NoHist
    /\ UNCHANGED <<records, groups, docs, nextRecId, nextGrpId, lastData, arg, res>>

ParseAttempts(op) == IF op = "upload" THEN max_retries ELSE 1
PersistAttempts(op) == IF op = "upload" THEN max_persistence_retries ELSE 1

\* one attempt of parse_rentroll (the file may also fail to be read); the last failed
\* attempt marks the document failed (before it a faulty variant: the last failed
\* attempt also deletes the deal's records)
ParseStepMut(s) ==
    /\ sess[s].pc = "parse"
    /\ \E today \in Todays, readable \in BOOLEAN :
        LET r == IF readable THEN ParseRentroll(sess[s].file, today)
                 ELSE [ok |-> FALSE, data |-> <<>>]
        IN IF r.ok
           THEN /\ sess' = [sess EXCEPT ![s].pc = "persist", ![s].data = r.data,
                                         ![s].tries = @ + 1]
                /\ UNCHANGED <<docs, hist, records>>
           ELSE IF sess[s].tries + 1 >= ParseAttempts(sess[s].op)
           THEN /\ docs' = SetStatus(docs, sess[s].doc, "failed", "parse")
                /\ hist' = HistOf(s, "parse_failed", sess[s].tries + 1, 0)
                /\ sess' = [sess EXCEPT ![s] = Ended(s, "parse_failed")]
                /\ records' = {}
           ELSE /\ sess' = [sess EXCEPT ![s].tries = @ + 1]
                /\ UNCHANGED <<docs, hist, records>>
    /\ UNCHANGED <<groups, nextRecId, nextGrpId, lastData, served, arg, res>>

ParseStep(s) ==
    /\ sess[s].pc = "parse"
    /\ \E today \in Todays, readable \in BOOLEAN :
        LET r == IF readable THEN ParseRentroll(sess[s].file, today)
                 ELSE [ok |-> FALSE, data |-> <<>>]
        IN IF r.ok
           THEN /\ sess' = [sess EXCEPT ![s].pc = "persist", ![s].data = r.data,
                                         ![s].tries = @ + 1]
                /\ UNCHANGED <<docs, hist>>
           ELSE IF sess[s].tries + 1 >= ParseAttempts(sess[s].op)
           THEN /\ docs' = SetStatus(docs, sess[s].doc, "failed", "parse")
                /\ hist' = HistOf(s, "parse_failed", sess[s].tries + 1, 0)
                /\ sess' = [sess EXCEPT ![s] = Ended(s, "parse_failed")]
           ELSE /\ sess' = [sess EXCEPT ![s].tries = @ + 1]
                /\ UNCHANGED <<docs, hist>>
    /\ UNCHANGED <<records, groups, nextRecId, nextGrpId, lastData, served, arg, res>>

----------------------------------------------------------------------------
(* RentRollParser.persist_to_database, as called by upload and normalize *)

\* lines 933-970: rows without a unit number or without any rent are skipped
Validated(data) ==
    SelectSeq(data, LAMBDA r : r.unit_number # "" /\ (r.actual_rent # 0 \/ r.market_rent # 0))

NewRecords(data, first) == {[id |-> first + i - 1] @@ data[i] : i \in 1..Len(data)}

\* lines 912-927: the rows to delete are the rows the two queries return
PersistBegin(s) ==
    /\ sess[s].pc = "persist"
    /\ sess' = [sess EXCEPT ![s].pc = "persist_commit",
                             ![s].snapRec = Ids(records), ![s].snapGrp = Ids(groups)]
    /\ UNCHANGED <<records, groups, docs, nextRecId, nextGrpId, hist, lastData, served, arg, res>>

\* the transaction raises (no valid row, or a database error) and is rolled back;
\* upload retries, and marks the document failed after the last attempt
PersistFail(s) ==
    /\ sess[s].pc = "persist_commit"
    /\ IF sess[s].ptries + 1 >= PersistAttempts(sess[s].op)
       THEN /\ docs' = SetStatus(docs, sess[s].doc, "failed", "persist")
            /\ hist' = HistOf(s, "persist_failed", sess[s].tries, sess[s].ptries + 1)
            /\ sess' = [sess EXCEPT ![s] = Ended(s, "persist_failed")]
       ELSE /\ sess' = [sess EXCEPT ![s].pc = "persist", ![s].ptries = @ + 1,
                                     ![s].snapRec = {}, ![s].snapGrp = {}]
            /\ UNCHANGED <<docs, hist>>
    /\ UNCHANGED <<records, groups, nextRecId, nextGrpId, lastData, served, arg, res>>

\* lines 976-977: the queried records and groups are deleted by primary key and the
\* validated rows inserted, in one commit
PersistCommit(s) ==
    LET new == Validated(sess[s].data)
    IN /\ sess[s].pc = "persist_commit"
       /\ new # <<>>
       /\ records' = {r \in records : r.id \notin sess[s].snapRec} \cup NewRecords(new, nextRecId)
       /\ groups' = {g \in groups : g.id \notin sess[s].snapGrp}
       /\ nextRecId' = nextRecId + Len(new)
       /\ lastData' = Range(new)
       /\ sess' = [sess EXCEPT ![s].pc = "unit_mix", ![s].ptries = @ + 1]
       /\ UNCHANGED <<docs, nextGrpId, hist, served, arg, res>>

\* lines 989-1008: the newest document is set to completed in the session, the next
\* statement raises, and the pending change goes out with the caller's next commit
NewestDoc == Len(docs)

\* lines 980-987: _generate_unit_mix_summary in its own transaction
PersistUnitMix(s) ==
    /\ sess[s].pc = "unit_mix"
    /\ groups' = NewGroups(sess[s].data, nextGrpId, "parser")
    /\ nextGrpId' = nextGrpId + NumTypes(sess[s].data)
    /\ sess' = [sess EXCEPT ![s].pc = "finish", ![s].dirty = NewestDoc]
    /\ UNCHANGED <<records, docs, nextRecId, hist, lastData, served, arg, res>>

\* its failure is logged and swallowed
PersistUnitMixFail(s) ==
    /\ sess[s].pc = "unit_mix"
    /\ sess' = [sess EXCEPT ![s].pc = "finish", ![s].dirty = NewestDoc]
    /\ UNCHANGED <<records, groups, docs, nextRecId, nextGrpId, hist, lastData, served, arg, res>>

\* upload lines 533-535, normalize lines 326-328
Finish(s) ==
    /\ sess[s].pc = "finish"
    /\ docs' = SetStatus(SetStatus(docs, sess[s].dirty, "completed", docs[sess[s].dirty].processing_error),
                          sess[s].doc, "completed", docs[sess[s].doc].processing_error)
    /\ hist' = HistOf(s, "completed", sess[s].tries, sess[s].ptries)
    /\ sess' = [sess EXCEPT ![s] = Ended(s, "completed")]
    /\ UNCHANGED <<records, groups, nextRecId, nextGrpId, lastData, served, arg, res>>

----------------------------------------------------------------------------
(* commit_rentroll and RentRollNormalizer.commit_to_database *)

\* request["normalized_data"]: nothing in the handler restricts its rows
Unit101 == Payload(Row("101", "1BR", 1500, "occupied", <<NaT, NaT>>))
Unit101Again == Payload(Row("101", "2BR", 0, "vacant", <<NaT, NaT>>))
Unit102 == Payload(Row("102", "1BR", 1500, "vacant", <<NaT, NaT>>))
Unit103 == Payload(Row("103", "1BR", 0, "vacant", <<NaT, NaT>>))
CommitPayloads == {<<>>, <<Unit101>>, <<Unit101, Unit102>>, <<Unit101, Unit101Again>>,
                   <<Unit101, Unit103>>}

\* line 696: an empty payload is refused before anything is touched
CommitRejected(s) ==
    /\ sess[s].pc = "idle" /\ served < MaxRequests
    /\ served' = served + 1
    /\ hist' = Hist("commit", "rejected", NoDoc, records, groups, <<>>)
    /\ sess' = [sess EXCEPT ![s] = Ended(s, "rejected")]
    /\ UNCHANGED <<records, groups, docs, nextRecId, nextGrpId, lastData, arg, res>>

\* lines 350-442: every existing record deleted, every payload row inserted, commit
CommitRecords(s, p) ==
    /\ sess[s].pc = "idle" /\ served < MaxRequests
    /\ served' = served + 1
    /\ p # <<>>
    /\ records' = NewRecords(p, nextRecId)
    /\ nextRecId' = nextRecId + Len(p)
    /\ lastData' = Range(p)
    /\ sess' = [sess EXCEPT ![s] = [Start(s, "commit", NoDoc, "none", "commit_unit_mix")
                                     EXCEPT !.data = p]]
    /\ hist' = NoHist
    /\ UNCHANGED <<groups, docs, nextGrpId, arg, res>>

\* the commit at line 442 raises: rollback, nothing written
CommitRecordsFail(s, p) ==
    /\ sess[s].pc = "idle" /\ served < MaxRequests
    /\ served' = served + 1
    /\ p # <<>>
    /\ hist' = Hist("commit", "commit_failed", NoDoc, records, groups, p)
    /\ sess' = [sess EXCEPT ![s] = Ended(s, "commit_failed")]
    /\ UNCHANGED <<records, groups, docs, nextRecId, nextGrpId, lastData, arg, res>>

\* line 445: groups regenerated from the persisted records, second commit
CommitUnitMix(s) ==
    /\ sess[s].pc = "commit_unit_mix"
    /\ groups' = NewGroups(SortById(records), nextGrpId, "normalizer")
    /\ nextGrpId' = nextGrpId + NumTypes(SortById(records))
    /\ hist' = HistOf(s, "completed", 0, 0)
    /\ sess' = [sess EXCEPT ![s] = Ended(s, "completed")]
    /\ UNCHANGED <<records, docs, nextRecId, lastData, served, arg, res>>

\* the regeneration raises: rolled back and reported, the records stay committed
CommitUnitMixFail(s) ==
    /\ sess[s].pc = "commit_unit_mix"
    /\ hist' = HistOf(s, "unit_mix_failed", 0, 0)
    /\ sess' = [sess EXCEPT ![s] = Ended(s, "unit_mix_failed")]
    /\ UNCHANGED <<records, groups, docs, nextRecId, nextGrpId, lastData, served, arg, res>>

----------------------------------------------------------------------------
(* Unit-mix operations *)

\* the groups a derive leaves (before it a faulty variant: the existing groups are
\* kept beside the derived ones)
DerivedMut(first) == groups \cup NewGroups(SortById(records), first, "router")

Derived(first) == NewGroups(SortById(records), first, "router")

\* derive_unit_mix_from_nrr via derive_from_rent_roll
DeriveFromRentRoll(s) ==
    /\ sess[s].pc = "idle" /\ served < MaxRequests
    /\ served' = served + 1
    /\ IF records = {}
       THEN /\ hist' = Hist("derive", "not_found", NoDoc, records, groups, <<>>)
            /\ UNCHANGED <<groups, nextGrpId>>
       ELSE
            /\ groups' = Derived(nextGrpId)
            /\ nextGrpId' = nextGrpId + NumTypes(SortById(records))
            /\ hist' = Hist("derive", "completed", NoDoc, records, groups, <<>>)
    /\ sess' = [sess EXCEPT ![s] = Ended(s, hist'.outcome)]
    /\ UNCHANGED <<records, docs, nextRecId, lastData, arg, res>>

\* link_to_rent_roll: a document not yet completed is marked completed, then derive
LinkToRentRoll(s, d) ==
    /\ sess[s].pc = "idle" /\ served < MaxRequests
    /\ served' = served + 1
    /\ d \in 1..Len(docs)
    /\ docs' = SetStatus(docs, d, "completed", docs[d].processing_error)
    /\ IF records = {}
       THEN /\ hist' = Hist("link", "not_found", d, records, groups, <<>>)
            /\ UNCHANGED <<groups, nextGrpId>>
       ELSE
            /\ groups' = Derived(nextGrpId)
            /\ nextGrpId' = nextGrpId + NumTypes(SortById(records))
            /\ hist' = Hist("link", "completed", d, records, groups, <<>>)
    /\ sess' = [sess EXCEPT ![s] = Ended(s, hist'.outcome)]
    /\ UNCHANGED <<records, nextRecId, lastData, arg, res>>

\* lines 713-717: what unlink writes on one row (before it a faulty variant: the
\* pro-forma total is reset as well)
UnlinkedMut(g) ==
    [g EXCEPT !.provenance = "MANUAL", !.is_linked_to_nrr = FALSE, !.total_pro_forma_rent = 0]

Unlinked(g) == [g EXCEPT !.provenance = "MANUAL", !.is_linked_to_nrr = FALSE]

UnlinkFromRentRoll(s) ==
    /\ sess[s].pc = "idle" /\ served < MaxRequests
    /\ served' = served + 1
    /\ groups' = {Unlinked(g) : g \in groups}
    /\ hist' = Hist("unlink", IF groups = {} THEN "not_found" ELSE "completed",
                     NoDoc, records, groups, <<>>)
    /\ sess' = [sess EXCEPT ![s] = Ended(s, hist'.outcome)]
    /\ UNCHANGED <<records, docs, nextRecId, nextGrpId, lastData, arg, res>>

\* request rows of update_unit_mix
ManualRow(t, pf) == [unit_type |-> t, total_units |-> 2, occupied_units |-> 1,
                     avg_actual_rent |-> 1200, pro_forma_rent |-> pf]
ManualPayloads == {<<>>, <<ManualRow("1BR", NoneValue)>>,
                   <<ManualRow("1BR", 1300), ManualRow("2BR", NoneValue)>>}

ManualGroup(id, row) ==
    [id |-> id, unit_type |-> row.unit_type, total_units |-> row.total_units,
     occupied_units |-> row.occupied_units,
     avg_actual_rent |-> row.avg_actual_rent,
     total_actual_rent |-> row.avg_actual_rent * row.total_units,
     pro_forma_rent |-> row.pro_forma_rent,
     total_pro_forma_rent |-> (IF row.pro_forma_rent \notin {NoneValue, 0}
                               THEN row.pro_forma_rent ELSE row.avg_actual_rent)
                              * row.total_units,
     provenance |-> "MANUAL", is_linked_to_nrr |-> FALSE]

\* update_unit_mix: the deal's rows are deleted and the request's rows inserted as
\* manual ones (before it a faulty variant: the existing rows are not deleted)
UpdateUnitMixMut(s, p) ==
    /\ sess[s].pc = "idle" /\ served < MaxRequests
    /\ served' = served + 1
    /\ groups' = groups \cup {ManualGroup(nextGrpId + i - 1, p[i]) : i \in 1..Len(p)}
    /\ nextGrpId' = nextGrpId + Len(p)
    /\ hist' = Hist("update_unit_mix", "completed", NoDoc, records, groups, p)
    /\ sess' = [sess EXCEPT ![s] = Ended(s, "completed")]
    /\ UNCHANGED <<records, docs, nextRecId, lastData, arg, res>>

UpdateUnitMix(s, p) ==
    /\ sess[s].pc = "idle" /\ served < MaxRequests
    /\ served' = served + 1
    /\ groups' = {ManualGroup(nextGrpId + i - 1, p[i]) : i \in 1..Len(p)}
    /\ nextGrpId' = nextGrpId + Len(p)
    /\ hist' = Hist("update_unit_mix", "completed", NoDoc, records, groups, p)
    /\ sess' = [sess EXCEPT ![s] = Ended(s, "completed")]
    /\ UNCHANGED <<records, docs, nextRecId, lastData, arg, res>>

DeleteUnitMixRow(s, id) ==
    /\ sess[s].pc = "idle" /\ served < MaxRequests
    /\ served' = served + 1
    /\ LET found == {g \in groups : g.id = id}
           outcome == IF found = {} THEN "not_found"
                      ELSE IF \E g \in found : g.is_linked_to_nrr THEN "rejected"
                      ELSE "completed"
       IN /\ groups' = IF outcome = "completed" THEN groups \ found ELSE groups
          /\ hist' = [Hist("delete_unit_mix_row", outcome, NoDoc, records, groups, <<>>)
                        EXCEPT !.target = id]
          /\ sess' = [sess EXCEPT ![s] = Ended(s, outcome)]
    /\ UNCHANGED <<records, docs, nextRecId, nextGrpId, lastData, arg, res>>

\* request["pro_forma_rents"] of update_rentroll_assumptions
\* primary keys a delete request may name
GroupIds == 1..(2 * MaxRequests)

ProFormaRequests == {[t \in ts |-> 2000] : ts \in {{"1BR"}, UnitTypes}}

UpdateProFormaRents(s, m) ==
    /\ sess[s].pc = "idle" /\ served < MaxRequests
    /\ served' = served + 1
    /\ groups' = {IF g.unit_type \in DOMAIN m
                  THEN [g EXCEPT !.pro_forma_rent = m[g.unit_type],
                                 !.total_pro_forma_rent = m[g.unit_type] * g.total_units]
                  ELSE g : g \in groups}
    /\ hist' = Hist("update_pro_forma_rents", "completed", NoDoc, records, groups, m)
    /\ sess' = [sess EXCEPT ![s] = Ended(s, "completed")]
    /\ UNCHANGED <<records, docs, nextRecId, nextGrpId, lastData, arg, res>>

----------------------------------------------------------------------------
(* The deal's requests, one at a time *)

Main == 1

Next ==
    \/ \E f \in Files : UploadDuplicate(Main, f)
    \/ \E f \in Files : UploadBegin(Main, f)
    \/ UploadMarkProcessing(Main)
    \/ \E d \in 1..MaxRequests : NormalizeDone(Main, d)
    \/ \E d \in 1..MaxRequests : NormalizeBegin(Main, d)
    \/ ParseStep(Main)
    \/ PersistBegin(Main)
    \/ PersistFail(Main)
    \/ PersistCommit(Main)
    \/ PersistUnitMix(Main)
    \/ PersistUnitMixFail(Main)
    \/ Finish(Main)
    \/ CommitRejected(Main)
    \/ \E p \in CommitPayloads : CommitRecords(Main, p)
    \/ \E p \in CommitPayloads : CommitRecordsFail(Main, p)
    \/ CommitUnitMix(Main)
    \/ CommitUnitMixFail(Main)
    \/ DeriveFromRentRoll(Main)
    \/ \E d \in 1..MaxRequests : LinkToRentRoll(Main, d)
    \/ UnlinkFromRentRoll(Main)
    \/ \E p \in ManualPayloads : UpdateUnitMix(Main, p)
    \/ \E id \in GroupIds : DeleteUnitMixRow(Main, id)
    \/ \E m \in ProFormaRequests : UpdateProFormaRents(Main, m)

Spec == Init /\ [][Next]_vars

(* Two upload requests of the deal in flight at once *)

NextConc ==
    \/ \E s \in Sessions, f \in Files : served < MaxUploads /\ UploadDuplicate(s, f)
    \/ \E s \in Sessions, f \in Files : served < MaxUploads /\ UploadBegin(s, f)
    \/ \E s \in Sessions : UploadMarkProcessing(s)
    \/ \E s \in Sessions : ParseStep(s)
    \/ \E s \in Sessions : PersistBegin(s)
    \/ \E s \in Sessions : PersistFail(s)
    \/ \E s \in Sessions : PersistCommit(s)
    \/ \E s \in Sessions : PersistUnitMix(s)
    \/ \E s \in Sessions : PersistUnitMixFail(s)
    \/ \E s \in Sessions : Finish(s)

SpecConc == Init /\ [][NextConc]_vars

(* _resolve_duplicates on every small table *)

ResolverInputs == UNION {[1..n -> ResolverRows] : n \in 0..MaxRows}

InitResolve == InitDb /\ arg \in ResolverInputs /\ res = NoRes

Resolve ==
    /\ ~res.done
    /\ \E today \in Todays, cols \in ColumnSets :
          res' = [done |-> TRUE, today |-> today, cols |-> cols,
                  out |-> ResolveDuplicates(WithIdx(arg), today, cols)]
    /\ UNCHANGED <<dbvars, arg>>

SpecResolve == InitResolve /\ [][Resolve]_vars

----------------------------------------------------------------------------
(* Claims *)

RecordReplacing == {"upload", "normalize", "commit"}
Running(s) == sess[s].pc # "idle"
WithoutId(gs) == {[g EXCEPT !.id = 0] : g \in gs}

\* the groups a completed replacement from data leaves behind
GroupsFrom(op, data) ==
    IF op = "commit" THEN WithoutId(NewGroups(data, 1, "normalizer"))
    ELSE WithoutId(NewGroups(data, 1, "parser"))
RecordsFrom(op, data) == IF op = "commit" THEN Range(data) ELSE Range(Validated(data))

BothAsBefore(preR, preG) == records = preR /\ groups = preG
BothReplaced(op, data) ==
    /\ Content(records) = RecordsFrom(op, data)
    /\ WithoutId(groups) = GroupsFrom(op, data)

\* C1: during and after every parse-and-persist operation (persist_to_database,
\* commit_to_database), whatever its outcome, each committed state has either both
\* the unit records and the unit-mix groups replaced from the new data, or both as
\* they were before the operation.
C1_BothOrNeither ==
    /\ \A s \in Sessions :
          (sess[s].op \in RecordReplacing
             /\ sess[s].pc \in {"persist", "persist_commit", "unit_mix", "finish",
                                "commit_unit_mix"})
          => \/ BothAsBefore(sess[s].preRecords, sess[s].preGroups)
             \/ BothReplaced(sess[s].op, sess[s].data)
    /\ (hist.op \in RecordReplacing
          /\ hist.outcome \in {"completed", "persist_failed", "unit_mix_failed",
                                "commit_failed"})
       => \/ BothAsBefore(hist.preRecords, hist.preGroups)
          \/ BothReplaced(hist.op, hist.data)

\* C2: in every reachable state no two persisted unit records of the deal carry the
\* same unit_number.
C2_UniqueUnitNumber ==
    \A r1, r2 \in records : r1.unit_number = r2.unit_number => r1 = r2

UnitNumbersOf(rows) == {rows[i].unit_number : i \in 1..Len(rows)}

\* C3: whenever _resolve_duplicates returns, its output holds exactly one record for
\* each distinct unit_number of the input (as many records as distinct unit numbers),
\* and every output record is an input record.
C3_OnePerUnitNumber ==
    (res.done /\ res.out.ok) =>
        LET in == WithIdx(arg)
            out == res.out.rows
        IN /\ Len(out) = Cardinality(UnitNumbersOf(in))
           /\ \A u \in UnitNumbersOf(in) :
                 Cardinality({i \in 1..Len(out) : out[i].unit_number = u}) = 1
           /\ \A i \in 1..Len(out) : out[i] \in Range(in)

\* a table with a duplicated unit and a second unit was resolved
C3_Witness ==
    /\ res.done /\ res.out.ok
    /\ res.out.dropped > 0
    /\ Cardinality(UnitNumbersOf(arg)) = 2
    /\ \E i \in 1..Len(res.out.rows) : res.out.rows[i].idx > 1

\* C4: an upload that fails before persistence (in any parse stage, also after its
\* retries) leaves the deal's unit records and unit-mix groups exactly as they were
\* when the upload started; nothing changes them while it is still parsing.
C4_ParseFailureKeepsData ==
    /\ \A s \in Sessions :
          (sess[s].op = "upload" /\ sess[s].pc \in {"saved", "parse"})
          => BothAsBefore(sess[s].preRecords, sess[s].preGroups)
    /\ (hist.op = "upload" /\ hist.outcome = "parse_failed")
       => BothAsBefore(hist.preRecords, hist.preGroups)

\* an upload failed in parsing after all its attempts, on a deal holding data
C4_Witness ==
    /\ hist.op = "upload" /\ hist.outcome = "parse_failed"
    /\ hist.tries = max_retries
    /\ records # {} /\ groups # {}

\* C5: while a document of the deal with the same content hash is completed, a
\* further upload of that content is a no-op: no upload of it gets past the
\* duplicate check to create a document, parse or persist.
C5_ReuploadIsNoOp ==
    \A s \in Sessions :
        (sess[s].op = "upload" /\ Running(s))
        => ~\E d \in 1..Len(docs) :
              /\ d # sess[s].doc
              /\ docs[d].file_hash = sess[s].file
              /\ docs[d].processing_status = "completed"

C7_LastCommitWins ==
    (\A s \in Sessions : ~Running(s) /\ sess[s].last = "completed")
    => Content(records) = lastData

Linked(gs) == {g \in gs : g.is_linked_to_nrr}
Manual(gs) == {g \in gs : ~g.is_linked_to_nrr}

UnitTypesOf(rs) == {r.unit_type : r \in rs}

C10_ManualGroupsKept ==
    /\ \A s \in Sessions :
          (sess[s].op \in RecordReplacing /\ Running(s))
          => Manual(sess[s].preGroups) \subseteq groups
    /\ hist.op \in RecordReplacing => Manual(hist.preGroups) \subseteq groups

\* the stored values of a group other than its provenance stamp
Values(g) == [g EXCEPT !.provenance = "", !.is_linked_to_nrr = FALSE]

FloatDen == 10000   \* denominators above this are rounded after a float power

Num(ty, n, d) == [ty |-> ty, n |-> n, d |-> d]

Abs(x) == IF x < 0 THEN -x ELSE x

RECURSIVE GCD(_, _)
GCD(a, b) == IF b = 0 THEN a ELSE GCD(b, a % b)

Norm(ty, n, d) ==
    LET g == GCD(Abs(n), Abs(d))
        s == IF d < 0 THEN -1 ELSE 1
    IN  Num(ty, s * (n \div g), s * (d \div g))

PyInt(n) == Num("int", n, 1)
PyFloat(n, d) == Norm("float", n, d)
Decimal(n, d) == Norm("dec", n, d)

TypeError == Num("TypeError", 0, 1)
ZeroDivisionError == Num("ZeroDivisionError", 0, 1)

IsErr(x) == x.ty \in {"TypeError", "ZeroDivisionError"}

\* the type of a binary arithmetic result: Decimal does not mix with float;
\* "complex" is a negative float raised to a fractional power, "irrational"
\* a float whose value is left unevaluated
ArithType(a, b) ==
    IF IsErr(a) THEN a.ty
    ELSE IF IsErr(b) THEN b.ty
    ELSE IF "dec" \in {a.ty, b.ty} /\ {a.ty, b.ty} \cap {"float", "complex", "irrational"} # {}
         THEN "TypeError"
    ELSE IF "complex" \in {a.ty, b.ty} THEN "complex"
    ELSE IF "irrational" \in {a.ty, b.ty} THEN "irrational"
    ELSE IF "dec" \in {a.ty, b.ty} THEN "dec"
    ELSE IF "float" \in {a.ty, b.ty} THEN "float"
    ELSE "int"

Exact(t) == t \in {"int", "float", "dec"}

Add(a, b) ==
    LET t == ArithType(a, b)
    IN  IF Exact(t) THEN Norm(t, a.n * b.d + b.n * a.d, a.d * b.d) ELSE Num(t, 0, 1)

Sub(a, b) ==
    LET t == ArithType(a, b)
    IN  IF Exact(t) THEN Norm(t, a.n * b.d - b.n * a.d, a.d * b.d) ELSE Num(t, 0, 1)

Mul(a, b) ==
    LET t == ArithType(a, b)
    IN  IF Exact(t) THEN Norm(t, a.n * b.n, a.d * b.d) ELSE Num(t, 0, 1)

\* true division: int / int is a float, a zero divisor raises
Div(a, b) ==
    LET t == ArithType(a, b)
    IN  IF t \in {"TypeError", "ZeroDivisionError"} THEN Num(t, 0, 1)
        ELSE IF b.n = 0 /\ Exact(b.ty) THEN ZeroDivisionError
        ELSE IF Exact(t) THEN Norm(IF t = "int" THEN "float" ELSE t, a.n * b.d, a.d * b.n)
        ELSE Num(t, 0, 1)

Gt0(x) == x.n > 0

Round(x) ==
    IF x.ty = "float" /\ x.d > FloatDen
    THEN LET k == x.d \div FloatDen IN Norm("float", x.n \div k, x.d \div k)
    ELSE x

RECURSIVE PowNat(_, _)
PowNat(b, h) == IF h = 0 THEN Num(b.ty, 1, 1) ELSE Round(Mul(b, PowNat(b, h - 1)))

\* b ** e
Pow(b, e) ==
    LET t == ArithType(b, e)
    IN  IF t \in {"TypeError", "ZeroDivisionError"} THEN Num(t, 0, 1)
        ELSE IF ~Exact(t) THEN Num(t, 0, 1)
        ELSE IF e.d = 1 /\ e.n >= 0
             THEN LET r == PowNat(b, e.n) IN Num(t, r.n, r.d)
        ELSE IF b.n = 0 /\ e.n < 0 THEN ZeroDivisionError
        ELSE IF e.d = 1 THEN Div(PyFloat(1, 1), PowNat(b, -e.n))
        ELSE IF b.n < 0 THEN Num("complex", 0, 1)
        ELSE IF b.n = 0 \/ b.n = b.d THEN Num("float", b.n, b.d)
        ELSE Num("irrational", 0, 1)

\* float(x)
ToFloat(x) ==
    IF IsErr(x) THEN x
    ELSE IF x.ty = "complex" THEN TypeError
    ELSE IF x.ty = "irrational" THEN x
    ELSE Num("float", x.n, x.d)

\* sum(...) starts from the int 0
RECURSIVE PySum(_)
PySum(s) == IF s = <<>> THEN PyInt(0) ELSE Add(PySum(SubSeq(s, 1, Len(s) - 1)), s[Len(s)])

Column(rows, f) == [i \in 1..Len(rows) |-> rows[i][f]]

\* sum(col) / len(col) * 12 if col else 0
Annualized(col) ==
    IF col # <<>> THEN Mul(Div(PySum(col), PyInt(Len(col))), PyInt(12)) ELSE PyInt(0)

\* line 171-177
RECURSIVE ProFormaTotal(_, _)
ProFormaTotal(units, pf) ==
    IF units = <<>> THEN PyInt(0)
    ELSE LET u == units[Len(units)]
         IN  Add(ProFormaTotal(SubSeq(units, 1, Len(units) - 1), pf),
                 IF u.unit_type \in DOMAIN pf THEN pf[u.unit_type] ELSE u.market_rent)

NoAssumptions == [present |-> FALSE, pro_forma_rents |-> <<>>,
                  vacancy_rate |-> Decimal(0, 1), market_rent_growth |-> Decimal(0, 1)]

DerivedAssumptions(t12_data, rentroll_data, rentroll_assumptions) ==
    LET annual_noi == Annualized(Column(t12_data, "net_operating_income"))
        annual_egi == Annualized(Column(t12_data, "total_income"))
        unit_count == PyInt(Len(rentroll_data))
        total_square_feet == PySum(Column(rentroll_data, "square_feet"))
        total_actual_rent == PySum(Column(rentroll_data, "actual_rent"))
        total_market_rent == PySum(Column(rentroll_data, "market_rent"))
        cap_rate == PyFloat(55, 1000)
        purchase_price == IF Gt0(annual_noi) THEN Div(annual_noi, cap_rate) ELSE PyInt(1000000)
    IN  [unit_count |-> unit_count,
         total_square_feet |-> total_square_feet,
         average_unit_sf |-> IF Gt0(unit_count) THEN Div(total_square_feet, unit_count) ELSE PyInt(0),
         average_rent |-> IF Gt0(unit_count) THEN Div(total_actual_rent, unit_count) ELSE PyInt(0),
         total_actual_rent |-> total_actual_rent,
         total_market_rent |-> total_market_rent,
         total_pro_forma_rent |->
             IF rentroll_assumptions.present /\ rentroll_assumptions.pro_forma_rents # <<>>
             THEN ProFormaTotal(rentroll_data, rentroll_assumptions.pro_forma_rents)
             ELSE total_market_rent,
         annual_noi |-> annual_noi,
         annual_egi |-> annual_egi,
         purchase_price |-> purchase_price,
         loan_amount |-> Mul(purchase_price, PyFloat(8, 10)),
         cap_rate |-> cap_rate,
         expense_ratio |-> IF Gt0(annual_egi) THEN Div(Sub(annual_egi, annual_noi), annual_egi)
                           ELSE PyFloat(35, 100),
         interest_rate |-> PyFloat(5, 100),
         exit_cap_rate |-> PyFloat(55, 1000),
         hold_period |-> PyInt(5),
         vacancy_rate |-> IF rentroll_assumptions.present
                          THEN ToFloat(rentroll_assumptions.vacancy_rate) ELSE PyFloat(5, 100),
         market_rent_growth |-> IF rentroll_assumptions.present
                                THEN ToFloat(rentroll_assumptions.market_rent_growth)
                                ELSE PyFloat(3, 100)]

\* the values of _derive_assumptions_from_data that can raise, by line
DeriveTrace(m) ==
    << <<164, m.average_unit_sf>>, <<169, m.average_rent>>,
       <<177, m.total_pro_forma_rent>>, <<181, m.purchase_price>>,
       <<182, m.loan_amount>>, <<185, m.expense_ratio>>,
       <<209, m.vacancy_rate>>, <<210, m.market_rent_growth>> >>

\* the first exception of a function, in line order
FirstRaise(trace) ==
    LET bad == {i \in 1..Len(trace) : IsErr(trace[i][2])}
    IN  IF bad = {} THEN [line |-> 0, error |-> "none"]
        ELSE LET i == CHOOSE j \in bad : \A k \in bad : j <= k
             IN  [line |-> trace[i][1], error |-> trace[i][2].ty]

\* assumptions.get(k, default)
Get(assumptions, k, default) == IF k \in DOMAIN assumptions THEN assumptions[k] ELSE default

\* {**derived, **request}
Merged(derived, request) ==
    [k \in DOMAIN derived \cup DOMAIN request |->
        IF k \in DOMAIN request THEN request[k] ELSE derived[k]]

\* every local of _calculate_comprehensive_kpis and the KPIs it returns
Kpis(t12_data, rentroll_data, assumptions) ==
    LET purchase_price == Get(assumptions, "purchase_price", PyInt(1000000))
        loan_amount == Get(assumptions, "loan_amount", PyInt(800000))
        interest_rate == Get(assumptions, "interest_rate", PyFloat(5, 100))
        exit_cap_rate == Get(assumptions, "exit_cap_rate", PyFloat(55, 1000))
        hold_period == Get(assumptions, "hold_period", PyInt(5))
        vacancy_rate == Get(assumptions, "vacancy_rate", PyFloat(5, 100))
        market_rent_growth == Get(assumptions, "market_rent_growth", PyFloat(3, 100))
        annual_noi == Annualized(Column(t12_data, "net_operating_income"))
        total_actual_rent == PySum(Column(rentroll_data, "actual_rent"))
        total_market_rent == PySum(Column(rentroll_data, "market_rent"))
        total_pro_forma_rent == Get(assumptions, "total_pro_forma_rent", total_market_rent)
        unit_count == PyInt(Len(rentroll_data))
        occupied_units ==
            PyInt(Cardinality({i \in 1..Len(rentroll_data) :
                                  rentroll_data[i].lease_status = "occupied"}))
        occupancy_rate == IF Gt0(unit_count) THEN Div(occupied_units, unit_count) ELSE PyInt(0)
        cap_rate == IF Gt0(purchase_price) THEN Div(annual_noi, purchase_price) ELSE PyInt(0)
        ltv == IF Gt0(purchase_price) THEN Div(loan_amount, purchase_price) ELSE PyInt(0)
        annual_debt_service == Mul(loan_amount, interest_rate)
        dscr == IF Gt0(annual_debt_service) THEN Div(annual_noi, annual_debt_service)
                ELSE PyInt(0)
        equity == Sub(purchase_price, loan_amount)
        annual_cash_flow == Sub(annual_noi, annual_debt_service)
        cash_on_cash == IF Gt0(equity) THEN Div(annual_cash_flow, equity) ELSE PyInt(0)
        pro_forma_noi ==
            Mul(Mul(Mul(total_pro_forma_rent, PyInt(12)), Sub(PyInt(1), vacancy_rate)),
                Sub(PyInt(1), Get(assumptions, "expense_ratio", PyFloat(35, 100))))
        exit_noi == Mul(pro_forma_noi, Pow(Add(PyInt(1), market_rent_growth), hold_period))
        exit_value == Div(exit_noi, exit_cap_rate)
        total_cash_flow == Mul(annual_cash_flow, hold_period)
        total_return == Sub(Add(total_cash_flow, exit_value), purchase_price)
        irr == IF Gt0(purchase_price)
               THEN Sub(Pow(Div(total_return, purchase_price), Div(PyInt(1), hold_period)),
                        PyInt(1))
               ELSE PyInt(0)
        equity_multiple == IF Gt0(equity) THEN Div(total_return, equity) ELSE PyInt(0)
        total_sf == PySum(Column(rentroll_data, "square_feet"))
        rent_per_sqft == IF Gt0(total_sf) THEN Div(total_actual_rent, total_sf) ELSE PyInt(0)
        price_per_sqft == IF Gt0(total_sf) THEN Div(purchase_price, total_sf) ELSE PyInt(0)
        egi == ToFloat(Get(assumptions, "annual_egi", PyInt(0)))
        payback_period == IF Gt0(annual_cash_flow)
                          THEN ToFloat(Div(equity, annual_cash_flow)) ELSE PyInt(0)
        break_even_occupancy ==
            IF Gt0(total_actual_rent)
            THEN ToFloat(Div(annual_debt_service, Mul(total_actual_rent, PyInt(12))))
            ELSE PyInt(0)
        debt_yield == IF Gt0(loan_amount) THEN ToFloat(Div(annual_noi, loan_amount))
                      ELSE PyInt(0)
    IN  [trace |->
            << <<243, occupancy_rate>>, <<246, cap_rate>>, <<249, ltv>>,
               <<252, annual_debt_service>>, <<255, dscr>>, <<258, equity>>,
               <<261, annual_cash_flow>>, <<264, cash_on_cash>>, <<267, pro_forma_noi>>,
               <<268, exit_noi>>, <<269, exit_value>>, <<272, total_cash_flow>>,
               <<273, total_return>>, <<276, irr>>, <<279, equity_multiple>>,
               <<283, rent_per_sqft>>, <<286, price_per_sqft>>, <<289, ToFloat(irr)>>,
               <<292, egi>>, <<299, payback_period>>, <<300, break_even_occupancy>>,
               <<301, debt_yield>>, <<310, ToFloat(interest_rate)>>,
               <<311, ToFloat(vacancy_rate)>> >>,
         kpis |-> [irr |-> ToFloat(irr),
                   equity_multiple |-> ToFloat(equity_multiple),
                   dscr |-> ToFloat(dscr),
                   egi |-> egi,
                   noi |-> ToFloat(annual_noi),
                   cap_rate |-> ToFloat(cap_rate),
                   ltv |-> ToFloat(ltv)]]

\* the JSON column of a run takes ints and floats, not Decimal
Serializable(assumptions) ==
    \A k \in DOMAIN assumptions : assumptions[k].ty \in {"int", "float"}

ValuationRun(status, assumptions, results) ==
    [status |-> status, assumptions |-> assumptions, results |-> results]

Outcome(http, line, error, runs, merged, kpis) ==
    [done |-> TRUE, http |-> http, line |-> line, error |-> error,
     runs |-> runs, merged |-> merged, kpis |-> kpis]

T12CheckMut(t12_data) == FALSE

\* if not t12_data
T12Check(t12_data) == t12_data = <<>>

\* run_valuation: the rows of valuation_runs it leaves, the response status,
\* and the merged map and KPIs where it got as far as computing them
RunValuationOutcome(a) ==
    LET running == ValuationRun("running", a.request, {})
        derived == DerivedAssumptions(a.t12_data, a.rentroll_data, a.rentroll_assumptions)
        dr == FirstRaise(DeriveTrace(derived))
        final_assumptions == Merged(derived, a.request)
        k == Kpis(a.t12_data, a.rentroll_data, final_assumptions)
        kr == FirstRaise(k.trace)
    IN  IF ~a.deal THEN Outcome(404, 54, "HTTPException", {}, {}, {})
        ELSE IF T12Check(a.t12_data)
             THEN Outcome(400, 88, "HTTPException", {running}, {}, {})
        ELSE IF dr.line # 0 THEN Outcome(500, dr.line, dr.error, {running}, {}, {})
        ELSE IF kr.line # 0
             THEN Outcome(500, kr.line, kr.error, {running}, {final_assumptions}, {})
        ELSE IF ~Serializable(final_assumptions)
             THEN Outcome(500, 107, "TypeError", {running}, {final_assumptions}, {k.kpis})
        ELSE Outcome(200, 0, "none",
                     {ValuationRun("completed", final_assumptions, {k.kpis})},
                     {final_assumptions}, {k.kpis})

\* what a valuation request finds and sends
Months == {[net_operating_income |-> Decimal(0, 1), total_income |-> Decimal(0, 1)],
           [net_operating_income |-> Decimal(0, 1), total_income |-> Decimal(8000, 1)],
           [net_operating_income |-> Decimal(5500, 1), total_income |-> Decimal(8000, 1)]}

T12Tables == {<<>>} \cup {<<m>> : m \in Months}

ValuationUnit ==
    [unit_type |-> "1BR", square_feet |-> PyInt(700), actual_rent |-> Decimal(1500, 1),
     market_rent |-> Decimal(1600, 1), lease_status |-> "occupied"]

RentRolls == {<<>>, <<ValuationUnit>>}

StoredAssumptions ==
    {NoAssumptions,
     [present |-> TRUE, pro_forma_rents |-> [t \in {"1BR"} |-> PyInt(2000)],
      vacancy_rate |-> Decimal(5, 100), market_rent_growth |-> Decimal(3, 100)]}

RequestValues ==
    [purchase_price |-> {PyInt(0), PyInt(2000000)},
     loan_amount |-> {PyInt(0), PyInt(500000)},
     interest_rate |-> {PyInt(0), PyFloat(6, 100)},
     exit_cap_rate |-> {PyInt(0), PyInt(1)},
     hold_period |-> {PyInt(0), PyInt(1)},
     vacancy_rate |-> {PyInt(0)},
     market_rent_growth |-> {PyInt(0)}]

Requests ==
    UNION {{r \in [ks -> UNION {RequestValues[k] : k \in ks}] :
               \A k \in ks : r[k] \in RequestValues[k]} :
           ks \in SUBSET DOMAIN RequestValues}

ValuationInputs ==
    [deal : BOOLEAN, t12_data : T12Tables, rentroll_data : RentRolls,
     rentroll_assumptions : StoredAssumptions, request : Requests]

NoOutcome == [done |-> FALSE, http |-> 0, line |-> 0, error |-> "none",
              runs |-> {}, merged |-> {}, kpis |-> {}]

InitValuation == InitDb /\ arg \in ValuationInputs /\ res = NoOutcome

RunValuation ==
    /\ ~res.done
    /\ res' = RunValuationOutcome(arg)
    /\ UNCHANGED <<dbvars, arg>>

SpecValuation == InitValuation /\ [][RunValuation]_vars

\* annual NOI of the deal the request is for
AnnualNoi == Annualized(Column(arg.t12_data, "net_operating_income"))

\* C12: in run_valuation the merged map holds, for every assumption name,
\* the caller's value when the caller supplied it and the derived value
\* otherwise, and the run is stored completed with exactly that merged map
\* as its assumption snapshot.
C12_SnapshotIsMergedMap ==
    \A m \in res.merged :
        LET d == DerivedAssumptions(arg.t12_data, arg.rentroll_data,
                                    arg.rentroll_assumptions)
        IN  /\ DOMAIN m = DOMAIN d \cup DOMAIN arg.request
            /\ \A k \in DOMAIN m :
                  m[k] = IF k \in DOMAIN arg.request THEN arg.request[k] ELSE d[k]
            /\ \A r \in res.runs : r.status = "completed" /\ r.assumptions = m

\* C13: for every merged assumption map, zeros included, the KPI computation
\* returns without raising; a KPI whose denominator is zero is 0, and with
\* an annual NOI of 0 cap_rate and dscr are both 0.
C13_KpisNeverRaise ==
    \A m \in res.merged :
        /\ res.kpis # {}
        /\ \A k \in res.kpis :
              /\ m.purchase_price.n = 0 => k.cap_rate.n = 0 /\ k.ltv.n = 0 /\ k.irr.n = 0
              /\ Mul(m.loan_amount, m.interest_rate).n = 0 => k.dscr.n = 0
              /\ AnnualNoi.n = 0 => k.cap_rate.n = 0 /\ k.dscr.n = 0

\* C14: run_valuation on a deal without T-12 records answers 400, computes
\* no KPIs and stores no KPI result.
C14_NoT12Rejected ==
    res.done /\ arg.deal /\ arg.t12_data = <<>>
    => /\ res.http = 400
       /\ res.merged = {} /\ res.kpis = {}
       /\ \A r \in res.runs : r.results = {} /\ r.status # "completed"

\* a deal with a rent roll and no T-12 was asked for a valuation with overrides
C14_Witness ==
    /\ res.done /\ arg.deal /\ arg.t12_data = <<>> /\ res.http = 400
    /\ arg.rentroll_data # <<>> /\ "purchase_price" \in DOMAIN arg.request
    /\ \E r \in res.runs : r.status = "running"

\* C15: when the caller supplies neither purchase_price nor loan_amount and
\* the annual NOI is positive, the run's cap_rate is 0.055 and its ltv 0.80.
C15_DerivedSelfConsistent ==
    /\ res.done /\ arg.deal /\ Gt0(AnnualNoi)
    /\ DOMAIN arg.request \cap {"purchase_price", "loan_amount"} = {}
    => \E k \in res.kpis : k.cap_rate = PyFloat(55, 1000) /\ k.ltv = PyFloat(8, 10)

\* the sum of actual_rent over a set of persisted records
RECURSIVE RentSum(_)
RentSum(S) == IF S = {} THEN 0
              ELSE LET r == CHOOSE x \in S : TRUE IN r.actual_rent + RentSum(S \ {r})

\* the records a finished derivation grouped under unit type t: the call's
\* normalized records on the parser path, the persisted records otherwise
DerivedFrom(t) ==
    IF hist.op \in {"upload", "normalize"}
    THEN {[i |-> i, actual_rent |-> hist.data[i].actual_rent] :
             i \in {j \in 1..Len(hist.data) : hist.data[j].unit_type = t}}
    ELSE {r \in records : r.unit_type = t}

\* C16: every group derived from the records S of a unit type has
\* total_units = |S| and total_actual_rent = the sum of actual_rent over S,
\* zero-rent records included, on the parser, normalizer and router paths.
C16_GroupTotalsMatch ==
    (hist.op \in {"upload", "normalize", "commit", "derive"} /\ hist.outcome = "completed")
    => \A g \in Linked(groups) :
          /\ g.total_units = Cardinality(DerivedFrom(g.unit_type))
          /\ g.total_actual_rent = RentSum(DerivedFrom(g.unit_type))

\* two records of one unit, the rent of either possibly missing
DuplicateRows == [unit_number : {"101"}, unit_type : {"1BR"},
                  actual_rent : Rents \cup {NaT}, market_rent : {1500},
                  lease_status : Statuses, lease : Leases]

InitPairs == InitDb /\ arg \in [1..2 -> DuplicateRows] /\ res = NoRes

SpecPairs == InitPairs /\ [][Resolve]_vars

\* C17: of two duplicate records of one unit, one with zero or missing rent
\* and one with positive rent, the resolver keeps the one with positive rent,
\* in either row order and whatever their lease dates and statuses.
C17_PositiveRentKept ==
    (res.done /\ Len(arg) = 2 /\ arg[1].unit_number = arg[2].unit_number
       /\ \E i, j \in 1..2 : arg[i].actual_rent > 0 /\ arg[j].actual_rent \in {0, NaT})
    => /\ res.out.ok
       /\ Len(res.out.rows) = 1
       /\ res.out.rows[1].actual_rent > 0
       /\ res.out.rows[1] \in Range(WithIdx(arg))

\* the paying record came second, vacant and without lease dates, after an
\* occupied record with a current lease and no rent
C17_Witness ==
    /\ res.done /\ Len(arg) = 2 /\ arg[1].unit_number = arg[2].unit_number
    /\ arg[1].actual_rent = NaT /\ IsOccupied(arg[1]) /\ CurrentLease(arg[1], res.today)
    /\ arg[2].actual_rent > 0 /\ ~IsOccupied(arg[2]) /\ LeaseStart(arg[2]) = NaT
    /\ res.out.ok /\ res.out.rows[1].idx = 2

----------------------------------------------------------------------------
(* RentRollParser.parse_rentroll on a table as read from the file: header     *)
(* Unit, Type, SF, Rent, Status and, when lease_columns, Lease Start and      *)
(* Lease End (SF is carried through untouched and left out)                   *)

MaxRawRows == 3
Missing == "nan"            \* an empty text cell, as astype(str) shows it

RawRow(unit, type, rent, status, lease) ==
    [Unit |-> unit, Type |-> type, Rent |-> rent, Status |-> status, Lease |-> lease]
RawCatalog ==
    {RawRow(101, "1BR", 1500, "Occupied", <<1, 4>>),
     RawRow(101, "1BR", 1500, "Occupied", <<2, 3>>),
     RawRow(101, "1BR", 0, "Applicant", <<NaT, NaT>>),
     RawRow(102, "2BR", 1500, "Vacant", <<NaT, NaT>>),
     RawRow(NaT, "1BR", 1500, "Occupied", <<NaT, NaT>>),
     RawRow(NaT, "Total", 3000, Missing, <<NaT, NaT>>),
     RawRow(102, "2BR", 1500, " ", <<NaT, NaT>>),
     RawRow(NaT, Missing, NaT, Missing, <<NaT, NaT>>)}
Tables == [lease_columns : BOOLEAN,
           rows : UNION {[1..n -> RawCatalog] : n \in 1..MaxRawRows}]

\* dropna(how='all'): rows with every cell empty go before anything is counted
CleanDataframe(table) ==
    SelectSeq(table.rows, LAMBDA r :
        ~(/\ r.Unit = NaT /\ r.Type = Missing /\ r.Rent = NaT /\ r.Status = Missing
          /\ (table.lease_columns => r.Lease = <<NaT, NaT>>)))

\* astype(str) of the Unit column: a column holding an empty cell is read as float
UnitText(unit, asFloat) ==
    IF unit = NaT THEN Missing
    ELSE IF unit = 101 THEN (IF asFloat THEN "101.0" ELSE "101")
    ELSE (IF asFloat THEN "102.0" ELSE "102")

CleanUnitNumber(unit_str) ==
    IF unit_str \in {"", "nan", "none", "null", "n/a", "na"} THEN ""
    ELSE CASE unit_str = "101.0" -> "101"
           [] unit_str = "102.0" -> "102"
           [] OTHER -> unit_str

NoneDropped == [blank |-> 0, header |-> 0, total |-> 0, applicant |-> 0,
                missing_unit_number |-> 0, duplicate_resolved |-> 0]

\* mask.sum(): every row the rule marks, whatever the earlier rules marked (before
\* it a faulty variant: rows an earlier rule marked are not counted again)
CountedMut(marked, earlier) == Len(SelectSeq(marked, LAMBDA r : r \notin Range(earlier)))

Counted(marked, earlier) == Len(marked)

\* the five masks are computed on the whole dataframe and a row is kept when none
\* of them marks it; keyword containment is decided on the texts that occur, none
\* of which contains a keyword without being one
FilterNonUnitRows(df, asFloat) ==
    LET texts(r) == {UnitText(r.Unit, asFloat), Lower(Strip(r.Type)), Lower(Strip(r.Status))}
        blank_mask(r) ==
            \/ r.Unit = NaT /\ r.Type = Missing /\ r.Rent = NaT /\ r.Status = Missing
            \/ "" \in texts(r)
        true_header_like(v) ==
            /\ v \in {"unit", "apartment", "apt", "suite", "number", "no", "#", "rent",
                      "amount", "price", "lease", "tenant", "occupant", "square", "sqft",
                      "sq_ft", "size", "start", "end", "expire", "move"}
            /\ v \notin {"occupied", "vacant", "applicant", "pending", "renewal", "1br", "2br"}
        header_mask(r) ==
            \E c \in {"Type", "Status"} :
                /\ true_header_like(Lower(Strip(r[c])))
                /\ Cardinality({i \in 1..Len(df) : true_header_like(Lower(Strip(df[i][c])))}) * 10
                      > Len(df) * 3
        total_mask(r) ==
            \/ texts(r) \cap {"total", "sum", "subtotal", "grand total", "summary", "count"} # {}
            \/ r.Rent # NaT /\ r.Rent % 1000 = 0 /\ r.Rent > 10000
        applicant_mask(r) ==
            \/ Lower(Strip(r.Status)) \in {"applicant", "pending", "future", "prospective",
                                     "waiting", "on hold", "renewal"}
            \/ r.Rent = 0 \/ r.Rent = NaT
        unit_number_mask(r) ==
            UnitText(r.Unit, asFloat) \in {"", "nan", "none", "null", "n/a", "na"}
    IN [rows |-> SelectSeq(df, LAMBDA r : ~(blank_mask(r) \/ header_mask(r) \/ total_mask(r)
                                              \/ applicant_mask(r) \/ unit_number_mask(r))),
        rows_dropped |->
            [blank |-> Counted(SelectSeq(df, blank_mask), <<>>),
             header |-> Counted(SelectSeq(df, header_mask), SelectSeq(df, blank_mask)),
             total |-> Counted(SelectSeq(df, total_mask),
                               SelectSeq(df, LAMBDA r : blank_mask(r) \/ header_mask(r))),
             applicant |-> Counted(SelectSeq(df, applicant_mask),
                                   SelectSeq(df, LAMBDA r : blank_mask(r) \/ header_mask(r)
                                                              \/ total_mask(r))),
             missing_unit_number |->
                 Counted(SelectSeq(df, unit_number_mask),
                         SelectSeq(df, LAMBDA r : blank_mask(r) \/ header_mask(r)
                                                    \/ total_mask(r) \/ applicant_mask(r))),
             duplicate_resolved |-> 0]]

\* unit numbers cleaned, texts stripped with their case kept, market rent copied
\* from actual rent, lease dates NaT when the file has no lease columns
NormalizeDataframe(df, lease_columns, asFloat) ==
    [i \in 1..Len(df) |->
        Row(CleanUnitNumber(UnitText(df[i].Unit, asFloat)), Strip(df[i].Type), df[i].Rent,
            Strip(df[i].Status), IF lease_columns THEN df[i].Lease ELSE <<NaT, NaT>>)]

\* the state a parser object carries between calls: fresh, or left by an earlier run
ParserStates == {[issues |-> 0, total_rows_read |-> 0, rows_dropped |-> NoneDropped],
                 [issues |-> 5, total_rows_read |-> 9,
                  rows_dropped |-> [NoneDropped EXCEPT !.blank = 1, !.duplicate_resolved = 2]]}

\* parse_rentroll starts by resetting that state (before it a faulty variant: the
\* state is carried over)
ResetMut(parser) == parser

Reset(parser) == [issues |-> 0, total_rows_read |-> 0, rows_dropped |-> NoneDropped]

Failed(step, parser) == [out |-> [ok |-> FALSE, data |-> <<>>, error |-> step], parser |-> parser]

\* duplicate_resolved as the resolver leaves it: every group up to and including
\* the first one that raises has been counted
CountedDuplicates(df, today) ==
    LET RECURSIVE cnt(_)
        cnt(k) == IF k > Len(UnitNumbers) THEN 0
                  ELSE LET g == GroupOf(df, UnitNumbers[k])
                       IN (IF Len(g) > 1 THEN Len(g) - 1 ELSE 0)
                          + (IF g # <<>> /\ ~ResolveGroup(g, today, AllColumns).ok
                             THEN 0 ELSE cnt(k + 1))
    IN cnt(1)

\* parse_rentroll, steps 1 to 7; issues counts the entries appended: one by
\* _read_file, one per target column by _detect_columns, one by the filter
RunParse(parser, table, today) ==
    LET asFloat == \E i \in 1..Len(table.rows) : table.rows[i].Unit = NaT
        df == CleanDataframe(table)
        read == [Reset(parser) EXCEPT !.issues = @ + 1, !.total_rows_read = Len(df)]
        filtered == FilterNonUnitRows(df, asFloat)
        kept == [read EXCEPT !.issues = @ + 11 + 1, !.rows_dropped = filtered.rows_dropped]
        normalized == WithIdx(NormalizeDataframe(filtered.rows, table.lease_columns, asFloat))
        resolved == ResolveDuplicates(normalized, today, AllColumns)
        done == [kept EXCEPT !.rows_dropped.duplicate_resolved =
                                 @ + CountedDuplicates(normalized, today)]
    IN IF df = <<>> THEN Failed("read", read)
       ELSE IF filtered.rows = <<>> THEN Failed("filter", kept)
       ELSE IF ~resolved.ok \/ resolved.rows = <<>> THEN Failed("duplicates", done)
       ELSE [out |-> [ok |-> TRUE,
                      data |-> [i \in 1..Len(resolved.rows) |->
                                   LET r == resolved.rows[i]
                                   IN Row(r.unit_number, r.unit_type, r.actual_rent,
                                          r.lease_status, r.lease)],
                      issues_report |-> done.issues,
                      parsing_summary |-> [total_rows_read |-> done.total_rows_read,
                                           rows_dropped |-> done.rows_dropped]],
             parser |-> done]

\* one parser object, one table, parsed twice on dates of the caller's choosing
ParseInputs == [table : Tables, parser : ParserStates]
InitParse == InitDb /\ arg \in ParseInputs /\ res = [runs |-> <<>>, parser |-> arg.parser]
ParseAgain ==
    /\ Len(res.runs) < 2
    /\ \E today \in Todays :
          LET r == RunParse(res.parser, arg.table, today)
          IN res' = [runs |-> Append(res.runs, [today |-> today, out |-> r.out]),
                     parser |-> r.parser]
    /\ UNCHANGED <<records, groups, docs, nextRecId, nextGrpId, sess, hist, lastData, served, arg>>
SpecParse == InitParse /\ [][ParseAgain]_vars

C19_ExampleOutput ==
    (/\ Len(res.runs) >= 1 /\ ~arg.table.lease_columns
     /\ arg.table.rows = <<RawRow(101, "1BR", 1500, "Occupied", <<1, 4>>),
                           RawRow(101, "1BR", 0, "Applicant", <<NaT, NaT>>),
                           RawRow(NaT, Missing, NaT, Missing, <<NaT, NaT>>)>>)
    => LET out == res.runs[1].out
       IN /\ out.ok /\ Len(out.data) = 1
          /\ out.data[1].unit_number = "101" /\ out.data[1].actual_rent = 1500
          /\ out.data[1].lease_status = "occupied"
          /\ out.parsing_summary.rows_dropped.blank = 1
          /\ out.parsing_summary.rows_dropped.duplicate_resolved = 1

----------------------------------------------------------------------------
(* _clean_unit_label (the parser's and the normalizer's are the same code);   *)
(* a label is a sequence of characters                                        *)

MaxLabelLen == 16
MaxTail == 3
NullValue == <<"null">>

\* every run of up to MaxLabelLen + 1 letters followed by up to MaxTail characters
\* of any class: upper and lower case letter, digit, hyphen, blank, line feed,
\* other; and the placeholder texts
LabelInputs ==
    {[i \in 1..k |-> "A"] \o tail :
        k \in 0..(MaxLabelLen + 1),
        tail \in UNION {[1..n -> {"A", "a", "1", "-", " ", "\n", "!"}] : n \in 0..MaxTail}}
    \cup {NullValue, <<"n", "a", "n">>, <<"N", "a", "N">>, <<"N", "o", "n", "e">>}

\* re.match(r'^[A-Z0-9\-_]*$', cleaned): $ matches at the end and also just before
\* a line feed that ends the string
ReMatch(cleaned) ==
    LET allowed(c) == c \in {"A", "N", "O", "E", "1", "-", "_"}
        body == IF cleaned # <<>> /\ cleaned[Len(cleaned)] = "\n"
                THEN SubSeq(cleaned, 1, Len(cleaned) - 1) ELSE cleaned
    IN \A i \in 1..Len(body) : allowed(body[i])

CleanUnitLabel(value) ==
    LET space(c) == c \in {" ", "\n"}
        upper(c) == CASE c = "a" -> "A" [] c = "n" -> "N" [] c = "o" -> "O"
                      [] c = "e" -> "E" [] OTHER -> c
        inner == {i \in 1..Len(value) : ~space(value[i])}
        stripped == IF inner = {} THEN <<>>
                    ELSE SubSeq(value, CHOOSE i \in inner : \A j \in inner : i <= j,
                                SetMax(inner))
        uppered == [i \in 1..Len(stripped) |-> upper(stripped[i])]
        truncated == IF Len(uppered) > MaxLabelLen THEN SubSeq(uppered, 1, MaxLabelLen)
                     ELSE uppered
        cleaned == IF ~ReMatch(truncated)
                   THEN SelectSeq(truncated,
                                  LAMBDA c : c \in {"A", "N", "O", "E", "1", "-", "_"})
                   ELSE truncated
    IN IF value \in {NullValue, <<>>, <<"n", "a", "n">>, <<"N", "a", "N">>,
                     <<"N", "o", "n", "e">>}
       THEN NullValue
       ELSE IF cleaned # <<>> THEN cleaned ELSE NullValue

InitLabel == InitDb /\ arg \in LabelInputs /\ res = [done |-> FALSE, out |-> NullValue]
CleanLabel ==
    /\ ~res.done
    /\ res' = [done |-> TRUE, out |-> CleanUnitLabel(arg)]
    /\ UNCHANGED <<records, groups, docs, nextRecId, nextGrpId, sess, hist, lastData, served, arg>>
SpecLabel == InitLabel /\ [][CleanLabel]_vars

\* C20: whatever the input, _clean_unit_label returns null or a non-empty string of
\* at most 16 characters, each of them A-Z, 0-9, '_' or '-'
C20_LabelShape ==
    res.done
    => \/ res.out = NullValue
       \/ /\ Len(res.out) \in 1..MaxLabelLen
          /\ \A i \in 1..Len(res.out) : res.out[i] \in {"A", "N", "O", "E", "1", "-", "_"}

C25_BlankOnlyWhenAllBlank ==
    Len(res.runs) >= 1
    => res.parser.rows_dropped.blank =
          Len(SelectSeq(CleanDataframe(arg.table), LAMBDA r :
                  /\ r.Unit = NaT /\ r.Rent = NaT
                  /\ Strip(r.Type) \in {"", Missing} /\ Strip(r.Status) \in {"", Missing}))

\* C22: when several rows share a unit number, neither the rent rule nor the
\* occupied rule narrows them to one and none of them has a lease start, the
\* resolver returns normally and keeps the first of them in row order
C22_NoLeaseDatesKeepFirst ==
    res.done
    => \A u \in Range(UnitNumbers) :
          LET group == GroupOf(WithIdx(arg), u)
              withRent == SelectSeq(group, HasRent)
              candidates == IF withRent # <<>> THEN withRent ELSE group
          IN (/\ Len(group) > 1 /\ Len(withRent) # 1
              /\ Len(SelectSeq(withRent, IsOccupied)) # 1
              /\ \A i \in 1..Len(group) : LeaseStart(group[i]) = NaT)
             => /\ res.out.ok
                /\ SelectSeq(res.out.rows, LAMBDA r : r.unit_number = u) = <<candidates[1]>>

----------------------------------------------------------------------------
(* _normalize_dataframe on one row that passed the filter: which columns the   *)
(* header mapped, and the row's cells (NaT for an empty or unmapped cell);     *)
(* unit identifiers are sequences of characters                                *)

UnitTexts == {<<"1">>, <<"1", " ">>, <<"0", "1">>, <<"1", ".", "0">>, <<"1", ".", "5">>,
              <<"1", ".", "0", "0">>, <<"1", "A">>, <<"1", ".", "A">>}

\* parse_rentroll wants a rent column mapped, and the filter has dropped every row
\* whose mapped actual-rent cell is empty or zero
RowInputs ==
    {a \in [mapped : SUBSET {"unit_type", "bedrooms", "square_feet", "actual_rent",
                             "market_rent"},
            Type : {"Loft"}, bedrooms : {NaT, 2, 6}, square_feet : {NaT, 400, 900},
            actual_rent : {NaT, 1500}, market_rent : {NaT, 0, 1600},
            unit : UnitTexts, other : UnitTexts] :
        /\ a.mapped \cap {"actual_rent", "market_rent"} # {}
        /\ "actual_rent" \in a.mapped <=> a.actual_rent # NaT
        /\ \A c \in {"bedrooms", "square_feet", "market_rent"} :
              c \notin a.mapped => a[c] = NaT}

\* astype(str).str.strip(), then _clean_unit_number: everything from the first
\* dot on is cut
CleanUnitChars(value) ==
    LET inner == {i \in 1..Len(value) : value[i] # " "}
        unit_str == IF inner = {} THEN <<>>
                    ELSE SubSeq(value, CHOOSE i \in inner : \A j \in inner : i <= j,
                                SetMax(inner))
        dots == {i \in 1..Len(unit_str) : unit_str[i] = "."}
    IN IF unit_str \in {<<>>, <<"n", "a", "n">>, <<"n", "a">>} THEN <<>>
       ELSE IF dots = {} THEN unit_str
       ELSE SubSeq(unit_str, 1, (CHOOSE i \in dots : \A j \in dots : i <= j) - 1)

InferUnitTypeFromSqft(sqft) ==
    IF sqft = NaT \/ sqft <= 0 THEN "Unknown"
    ELSE IF sqft < 500 THEN "Studio"
    ELSE IF sqft < 800 THEN "1BR"
    ELSE IF sqft < 1200 THEN "2BR"
    ELSE IF sqft < 1600 THEN "3BR"
    ELSE "4BR+"

SafeDecimal(value) == IF value = NaT THEN 0 ELSE value

\* unit_type, actual_rent and market_rent of the normalized record, and the rents
\* as persist_to_database stores them
NormalizeRow(a) ==
    LET bedrooms == IF a.bedrooms = NaT THEN 0
                    ELSE IF 0 <= a.bedrooms /\ a.bedrooms <= 5 THEN a.bedrooms ELSE 0
        actual_rent == IF "actual_rent" \in a.mapped THEN a.actual_rent ELSE 0
        market_rent == IF "market_rent" \in a.mapped THEN a.market_rent ELSE actual_rent
    IN [done |-> TRUE,
        unit_number |-> CleanUnitChars(a.unit),
        other_number |-> CleanUnitChars(a.other),
        unit_type |-> IF "bedrooms" \in a.mapped
                      THEN (IF bedrooms > 0
                            THEN (CASE bedrooms = 1 -> "1BR" [] bedrooms = 2 -> "2BR"
                                    [] bedrooms = 3 -> "3BR" [] bedrooms = 4 -> "4BR"
                                    [] OTHER -> "5BR")
                            ELSE "Studio")
                      ELSE IF "unit_type" \in a.mapped THEN a.Type
                      ELSE IF "square_feet" \in a.mapped
                           THEN InferUnitTypeFromSqft(a.square_feet)
                           ELSE "Unknown",
        actual_rent |-> actual_rent,
        market_rent |-> market_rent,
        stored_actual_rent |-> SafeDecimal(actual_rent),
        stored_market_rent |-> SafeDecimal(market_rent)]

InitRow == InitDb /\ arg \in RowInputs /\ res = [done |-> FALSE]
NormalizeOne ==
    /\ ~res.done
    /\ res' = NormalizeRow(arg)
    /\ UNCHANGED <<dbvars, arg>>
SpecRow == InitRow /\ [][NormalizeOne]_vars

\* C23: actual_rent takes market_rent's value when its own column is unmapped or
\* its cell is blank, market_rent takes actual_rent's value in the same way, and
\* both are 0 only when neither column is mapped
C23_RentsDefaultToEachOther ==
    res.done
    => LET own(c) == IF c \in arg.mapped /\ arg[c] # NaT THEN arg[c] ELSE NaT
           a == own("actual_rent")
           m == own("market_rent")
       IN /\ (a = NaT /\ m # NaT) => res.actual_rent = m /\ res.stored_actual_rent = m
          /\ (m = NaT /\ a # NaT) => res.market_rent = a /\ res.stored_market_rent = a
          /\ a # NaT => res.actual_rent = a
          /\ m # NaT => res.market_rent = m

\* C24: unit_type is the mapped unit-type column whenever that column is mapped;
\* otherwise it comes from a bedroom count within 0..5 ("Studio" for 0, "nBR"
\* otherwise); otherwise from the square-footage bins; otherwise it is "Unknown"
\* (a row whose bedroom cell is empty is left open when bedrooms decide)
C24_UnitTypePrecedence ==
    (res.done /\ ("bedrooms" \in arg.mapped /\ "unit_type" \notin arg.mapped
                    => arg.bedrooms # NaT))
    => res.unit_type =
          IF "unit_type" \in arg.mapped THEN arg.Type
          ELSE IF "bedrooms" \in arg.mapped /\ arg.bedrooms \in 0..5
               THEN (IF arg.bedrooms = 0 THEN "Studio" ELSE "2BR")
          ELSE IF "square_feet" \in arg.mapped THEN InferUnitTypeFromSqft(arg.square_feet)
          ELSE "Unknown"

\* C26: unit_number is the trimmed identifier with only a trailing ".0" after
\* digits removed, so two identifiers that differ otherwise get different
\* unit_numbers
C26_OnlyTrailingZeroRemoved ==
    res.done
    => LET trim(v) == SelectSeq(v, LAMBDA c : c # " ")
           digits(v) == \A i \in 1..Len(v) : v[i] \in {"0", "1", "5"}
           canon(v) == IF /\ Len(v) > 2 /\ SubSeq(v, Len(v) - 1, Len(v)) = <<".", "0">>
                          /\ digits(SubSeq(v, 1, Len(v) - 2))
                       THEN SubSeq(v, 1, Len(v) - 2) ELSE v
       IN /\ res.unit_number = canon(trim(arg.unit))
          /\ canon(trim(arg.unit)) # canon(trim(arg.other))
                => res.unit_number # res.other_number

C28_RunLeavesRunning ==
    res.done => \A r \in res.runs : r.status \in {"completed", "failed"}

\* C29: a document's processing_status turns "completed" only in the step that ends
\* a request which parsed that same document's content and persisted its records
C29_CompletedOnlyByOwnProcessing ==
    [][\A d \in 1..Len(docs) :
          (docs[d].processing_status # "completed"
             /\ docs'[d].processing_status = "completed")
          => \E s \in Sessions : sess[s].pc = "finish" /\ sess[s].doc = d]_vars

----------------------------------------------------------------------------
(* get_unit_mix: the totals of the three groupings after an upload *)

MaxUnits == 2
GroupBys == {"unit_type", "unit_label", "square_feet"}

\* the rows of an uploaded rent roll as _normalize_dataframe leaves them:
\* lease_status stripped but in the file's case, square_feet None when the cell is empty
ViewUnits == [unit_type : UnitTypes, unit_label : {"", "A1"},
              square_feet : {NoneValue, 700}, actual_rent : {1500},
              lease_status : {"occupied", "Occupied", "vacant"}]
ViewInputs == UNION {[1..n -> ViewUnits] : n \in 1..MaxUnits}

RECURSIVE SumOver(_, _)
SumOver(S, f) == IF S = {} THEN 0
                 ELSE LET k == CHOOSE x \in S : TRUE IN f[k] + SumOver(S \ {k}, f)

\* units without square_feet join no group
GetUnitMixByFloorPlan(rent_roll_data) ==
    LET sized == {u \in rent_roll_data : u.square_feet # NoneValue}
        keys == {u.square_feet : u \in sized}
        units == [k \in keys |-> {u \in sized : u.square_feet = k}]
    IN [total_units |-> SumOver(keys, [k \in keys |-> Cardinality(units[k])]),
        total_occupied |->
            SumOver(keys, [k \in keys |-> Cardinality({u \in units[k] : IsOccupied(u)})])]

\* units with a blank label are grouped under a dash
GetUnitMixByUnitLabel(rent_roll_data) ==
    LET label(u) == IF Strip(u.unit_label) # "" THEN Strip(u.unit_label) ELSE "-"
        keys == {label(u) : u \in rent_roll_data}
        units == [k \in keys |-> {u \in rent_roll_data : label(u) = k}]
    IN [total_units |-> SumOver(keys, [k \in keys |-> Cardinality(units[k])]),
        total_occupied |->
            SumOver(keys, [k \in keys |-> Cardinality({u \in units[k] : IsOccupied(u)})])]

\* the unit_type grouping adds up the stored unit mix rows
GetUnitMix(group_by) ==
    IF group_by = "square_feet" THEN GetUnitMixByFloorPlan(records)
    ELSE IF group_by = "unit_label" THEN GetUnitMixByUnitLabel(records)
    ELSE [total_units |-> SumOver(groups, [g \in groups |-> g.total_units]),
          total_occupied |-> SumOver(groups, [g \in groups |-> g.occupied_units])]

InitView ==
    /\ InitDb /\ arg \in ViewInputs
    /\ res = [group_by |-> "", totals |-> [total_units |-> 0, total_occupied |-> 0]]

\* a successful upload: the rows are stored and the unit mix rows are written
\* from the same normalized records
UploadView ==
    /\ records = {}
    /\ records' = {[id |-> i] @@ arg[i] : i \in 1..Len(arg)}
    /\ LET types == TypesInOrder(arg)
       IN /\ groups' = {ParserGroup(i, types[i], OfType(arg, types[i])) : i \in 1..Len(types)}
          /\ nextGrpId' = Len(types) + 1
    /\ nextRecId' = Len(arg) + 1
    /\ UNCHANGED <<docs, sess, hist, lastData, served, arg, res>>

ViewUnitMix ==
    \E group_by \in GroupBys :
        /\ groups # {}
        /\ res' = [group_by |-> group_by, totals |-> GetUnitMix(group_by)]
        /\ UNCHANGED <<dbvars, arg>>

SpecView == InitView /\ [][UploadView \/ ViewUnitMix]_vars

\* C30: after an upload, whichever grouping is asked for, total_units is the number
\* of the deal's unit records and total_occupied the number of those whose
\* lease_status is occupied in any letter case, also when records lack square_feet
C30_TotalsAgreeAcrossGroupings ==
    res.group_by # ""
    => res.totals = [total_units |-> Cardinality(records),
                     total_occupied |-> Cardinality({u \in records : IsOccupied(u)})]

====
